---- MODULE Spec2Model ----
(***************************************************************************)
(* A model of the email triage assistant: the store (threads, triage_runs, *)
(* tasks), the polling cycle that drives it, and the pure functions of the *)
(* triage engine.                                                          *)
(*                                                                         *)
(* Text is modelled by TLA+ strings drawn from a finite vocabulary; the    *)
(* string conversions of the code (strip, lower, str) are tables over that *)
(* vocabulary.  SQL NULL / Python None in a text column is the string      *)
(* NULL, which is no value of any column.                                  *)
(***************************************************************************)
EXTENDS Integers, Sequences, FiniteSets, TLC

\* ------------------------------------------------------------------ bounds
\* Days the clock may advance (now_iso / date.today are read off this clock).
MaxNow == 1
\* Rows the append-only triage_runs log may hold.
MaxRuns == 2
\* Threads of the mailbox.
NumThreads == 1

\* ------------------------------------------------------- program constants
\* CONFIDENCE_THRESHOLD default 0.55, in hundredths.
conf_thr == 55
\* FOLLOWUP_STALE_DAYS default.
stale_days == 14

NULL == "<NULL>"

TidNames == <<"t1", "t2", "t3">>
ThreadIds == {TidNames[i] : i \in 1..NumThreads}

\* The subjects extract_subject_and_history_id can return for a thread.
Subjects == {"Invoice 1023"}
\* The change markers (historyId of the newest message); NULL when the
\* thread carries no message metadata.
Markers == {"h1", "h2"}

followup_domain == "followups"
followup_priority == "normal"
my_email == "me@x.com"
LLM_MODEL == "simulate"

\* now_iso() and date.today().isoformat() on day d of the clock.
IsoTimes ==
    <<"2026-01-01T00:00:00Z", "2026-01-02T00:00:00Z", "2026-01-03T00:00:00Z", "2026-01-04T00:00:00Z",
      "2026-01-05T00:00:00Z", "2026-01-06T00:00:00Z">>
IsoDates == <<"2026-01-01", "2026-01-02", "2026-01-03", "2026-01-04", "2026-01-05", "2026-01-06">>

now_iso(clock) == IsoTimes[clock + 1]

today_iso(clock) == IsoDates[clock + 1]

\* ------------------------------------------------------------ str methods
\* str.strip() on the vocabulary: the strings with outer whitespace.
strip(s) ==
    CASE s = " payment follow-up / confirm remittance " -> "payment follow-up / confirm remittance"
      [] s = " 2026-01-02 " -> "2026-01-02"
      [] s = " Medium " -> "Medium"
      [] s = " " -> ""
      [] OTHER -> s

\* str.lower() on the vocabulary: the strings with an upper-case letter.
lower(s) ==
    CASE s = "Review thread" -> "review thread"
      [] s = "Payment Follow-Up / Confirm Remittance" -> "payment follow-up / confirm remittance"
      [] s = "Follow up" -> "follow up"
      [] s = "Follow up: Invoice 1023" -> "follow up: invoice 1023"
      [] s = "Follow up: Email thread" -> "follow up: email thread"
      [] s = "Payment follow-up / confirm remittance" -> "payment follow-up / confirm remittance"
      [] s = "Track upcoming expiry / renewal" -> "track upcoming expiry / renewal"
      [] s = "Audit request: respond / provide evidence" -> "audit request: respond / provide evidence"
      [] s = "Ignore low-impact email" -> "ignore low-impact email"
      [] s = "Send reminder" -> "send reminder"
      [] s = "Medium" -> "medium"
      [] s = "HIGH" -> "high"
      [] s = "Invoice" -> "invoice"
      [] s = "Follow_Up" -> "follow_up"
      [] s = "Unclear intent; needs quick scan." -> "unclear intent; needs quick scan."
      [] s = "Check promised payment status." -> "check promised payment status."
      [] OTHER -> s

\* `x or d` for a text value: None and "" are falsy.
Or(x, d) == IF x = NULL \/ x = "" THEN d ELSE x

\* str(x): None prints as "None".
str(x) == IF x = NULL THEN "None" ELSE x

\* dict.get(k, d)
Get(d, k, default) == IF k \in DOMAIN d THEN d[k] ELSE default

\* ------------------------------------------------------------------ store
\* hashlib.sha1(...).hexdigest(): a digest, taken to be collision free.
sha1(base) == <<"sha1", base>>

_task_key(provider, thread_id, title, due) ==
    sha1(provider \o "|" \o thread_id \o "|" \o lower(strip(title)) \o "|" \o strip(Or(due, "")))

HasKey(tbl, key) == \E i \in 1..Len(tbl) : tbl[i].task_key = key

\* A mutant of InsertOrIgnore: a plain INSERT into a table with no unique index.
InsertAlways(tbl, provider, thread_id, created_at, priority, title, due_date, notes, key) ==
    Append(tbl, [id |-> Len(tbl) + 1, provider |-> provider, thread_id |-> thread_id,
                 created_at |-> created_at, status |-> "open", priority |-> priority,
                 title |-> title, due_date |-> due_date, notes |-> notes, task_key |-> key])

\* A mutant of InsertOrIgnore: INSERT OR REPLACE, the conflicting row rewritten.
InsertOrReplace(tbl, provider, thread_id, created_at, priority, title, due_date, notes, key) ==
    IF HasKey(tbl, key)
    THEN [i \in 1..Len(tbl) |->
            IF tbl[i].task_key = key
            THEN [id |-> tbl[i].id, provider |-> provider, thread_id |-> thread_id,
                  created_at |-> created_at, status |-> "open", priority |-> priority,
                  title |-> title, due_date |-> due_date, notes |-> notes, task_key |-> key]
            ELSE tbl[i]]
    ELSE Append(tbl, [id |-> Len(tbl) + 1, provider |-> provider, thread_id |-> thread_id,
                 created_at |-> created_at, status |-> "open", priority |-> priority,
                 title |-> title, due_date |-> due_date, notes |-> notes, task_key |-> key])

\* INSERT OR IGNORE INTO tasks(...) under the unique index ux_tasks_task_key:
\* the row is appended with the next id and status 'open', unless a row with
\* the key exists.  Rows are never deleted, so the next AUTOINCREMENT id is
\* the row count plus one.
InsertOrIgnore(tbl, provider, thread_id, created_at, priority, title, due_date, notes, key) ==
    IF HasKey(tbl, key)
    THEN tbl
    ELSE Append(tbl, [id |-> Len(tbl) + 1, provider |-> provider, thread_id |-> thread_id,
                 created_at |-> created_at, status |-> "open", priority |-> priority,
                 title |-> title, due_date |-> due_date, notes |-> notes, task_key |-> key])

mark_task_done(tbl, task_id) ==
    [i \in 1..Len(tbl) |-> IF tbl[i].id = task_id THEN [tbl[i] EXCEPT !.status = "done"] ELSE tbl[i]]

create_followup_task(tbl, provider, thread_id, created_at, priority, title, due_date, notes) ==
    InsertOrIgnore(tbl, provider, thread_id, created_at, priority, title, due_date, notes,
                   _task_key(provider, thread_id, title, due_date))

HasThread(ths, provider, thread_id) ==
    \E r \in ths : r.provider = provider /\ r.thread_id = thread_id

ThreadRow(ths, provider, thread_id) ==
    CHOOSE r \in ths : r.provider = provider /\ r.thread_id = thread_id

\* A mutant of should_analyze_thread: the comparison inverted.
ShouldAnalyzeWhenEqual(ths, provider, thread_id, latest_history_id) ==
    IF ~HasThread(ths, provider, thread_id)
    THEN TRUE
    ELSE LET last_analyzed == ThreadRow(ths, provider, thread_id).last_analyzed_history_id
         IN  last_analyzed = NULL \/ str(last_analyzed) = str(latest_history_id)

should_analyze_thread(ths, provider, thread_id, latest_history_id) ==
    IF ~HasThread(ths, provider, thread_id)
    THEN TRUE
    ELSE LET last_analyzed == ThreadRow(ths, provider, thread_id).last_analyzed_history_id
         IN  last_analyzed = NULL \/ str(last_analyzed) # str(latest_history_id)

\* A mutant of upsert_thread: the analyzed marker refreshed on observation.
UpsertMarksAnalyzed(ths, provider, thread_id, subject, last_seen_at, last_seen_history_id) ==
    IF HasThread(ths, provider, thread_id)
    THEN {IF r.provider = provider /\ r.thread_id = thread_id
          THEN [r EXCEPT !.subject = subject, !.last_seen_at = last_seen_at,
                         !.last_seen_history_id = last_seen_history_id,
                         !.last_analyzed_history_id = last_seen_history_id]
          ELSE r : r \in ths}
    ELSE ths \cup {[provider |-> provider, thread_id |-> thread_id, subject |-> subject,
                    last_seen_at |-> last_seen_at, last_analyzed_at |-> NULL,
                    digest_bucket |-> NULL, last_seen_history_id |-> last_seen_history_id,
                    last_analyzed_history_id |-> last_seen_history_id]}

upsert_thread(ths, provider, thread_id, subject, last_seen_at, last_seen_history_id) ==
    IF HasThread(ths, provider, thread_id)
    THEN {IF r.provider = provider /\ r.thread_id = thread_id
          THEN [r EXCEPT !.subject = subject, !.last_seen_at = last_seen_at,
                         !.last_seen_history_id = last_seen_history_id]
          ELSE r : r \in ths}
    ELSE ths \cup {[provider |-> provider, thread_id |-> thread_id, subject |-> subject,
                    last_seen_at |-> last_seen_at, last_analyzed_at |-> NULL,
                    digest_bucket |-> NULL, last_seen_history_id |-> last_seen_history_id,
                    last_analyzed_history_id |-> NULL]}

\* A mutant of record_triage_runs: one run kept per thread and run time.
RecordTriageRunsKeyed(runs, provider, thread_id, run_at, model, confidence, output) ==
    IF \E i \in 1..Len(runs) :
          runs[i].provider = provider /\ runs[i].thread_id = thread_id /\ runs[i].run_at = run_at
    THEN [i \in 1..Len(runs) |->
            IF runs[i].provider = provider /\ runs[i].thread_id = thread_id /\ runs[i].run_at = run_at
            THEN [runs[i] EXCEPT !.model = model, !.confidence = confidence, !.output_json = output]
            ELSE runs[i]]
    ELSE Append(runs, [id |-> Len(runs) + 1, provider |-> provider, thread_id |-> thread_id,
                       run_at |-> run_at, model |-> model, confidence |-> confidence,
                       output_json |-> output])

\* record_triage, first statement: the run appended to triage_runs.
record_triage_runs(runs, provider, thread_id, run_at, model, confidence, output) ==
    Append(runs, [id |-> Len(runs) + 1, provider |-> provider, thread_id |-> thread_id,
                  run_at |-> run_at, model |-> model, confidence |-> confidence,
                  output_json |-> output])

\* A mutant of record_triage_threads: the analyzed marker not stored.
RecordTriageNoMarker(ths, provider, thread_id, run_at, latest_history_id, output) ==
    {IF r.provider = provider /\ r.thread_id = thread_id
     THEN [r EXCEPT !.last_analyzed_at = run_at,
                    !.digest_bucket = Get(output, "domain", "other")]
     ELSE r : r \in ths}

\* A mutant of record_triage_threads: the bucket not refreshed.
RecordTriageNoBucket(ths, provider, thread_id, run_at, latest_history_id, output) ==
    {IF r.provider = provider /\ r.thread_id = thread_id
     THEN [r EXCEPT !.last_analyzed_at = run_at,
                    !.last_analyzed_history_id = latest_history_id]
     ELSE r : r \in ths}

\* record_triage, second statement: UPDATE threads SET last_analyzed_at,
\* digest_bucket, last_analyzed_history_id WHERE provider, thread_id.
record_triage_threads(ths, provider, thread_id, run_at, latest_history_id, output) ==
    {IF r.provider = provider /\ r.thread_id = thread_id
     THEN [r EXCEPT !.last_analyzed_at = run_at,
                    !.digest_bucket = Get(output, "domain", "other"),
                    !.last_analyzed_history_id = latest_history_id]
     ELSE r : r \in ths}

TaskKinds == {"create_task", "send_reminder", "review_needed"}

\* A mutant of IsTaskAction: the action-kind filter lost.
AnyActionIsTask(a) == TRUE

\* The filter of create_tasks_from_actions: the kinds that produce a task.
IsTaskAction(a) == Get(a, "action", NULL) \in TaskKinds

\* The row create_tasks_from_actions inserts for action a.
ActionTitle(a) == Or(Get(a, "title", NULL), "Follow up")

ActionNotes(a, triage_output) == Or(Get(a, "notes", NULL), Get(triage_output, "rationale", ""))

ActionDue(a) == Get(a, "due_date", NULL)

RECURSIVE CreateTasksLoop(_, _, _, _, _, _, _)
CreateTasksLoop(tbl, provider, thread_id, created_at, triage_output, actions, i) ==
    IF i > Len(actions)
    THEN tbl
    ELSE LET a == actions[i]
         IN  IF ~IsTaskAction(a)
             THEN CreateTasksLoop(tbl, provider, thread_id, created_at, triage_output, actions, i + 1)
             ELSE CreateTasksLoop(
                    InsertOrIgnore(tbl, provider, thread_id, created_at,
                                   Get(triage_output, "priority", "normal"),
                                   ActionTitle(a), ActionDue(a), ActionNotes(a, triage_output),
                                   _task_key(provider, thread_id, ActionTitle(a), ActionDue(a))),
                    provider, thread_id, created_at, triage_output, actions, i + 1)

create_tasks_from_actions(tbl, provider, thread_id, created_at, triage_output) ==
    CreateTasksLoop(tbl, provider, thread_id, created_at, triage_output,
                    Get(triage_output, "recommended_actions", <<>>), 1)

\* ---------------------------------------------------------- triage engine
\* A classification record is a function from its (present) top-level keys
\* to values; a JSON null in a text field is NULL, and a JSON null in a
\* list field is NullList.  Confidence is in hundredths.
NullList == <<[null |-> TRUE]>>

\* Python truthiness of a list value: None and [] are falsy.
Falsy(lst) == lst = <<>> \/ lst = NullList

\* dict.update: the keys of `out` override those of `base`.
Update(base, out) ==
    [k \in DOMAIN base \cup DOMAIN out |-> IF k \in DOMAIN out THEN out[k] ELSE base[k]]

Defaults ==
    [domain |-> "other", intent |-> "other", priority |-> "normal", confidence |-> 50,
     rationale |-> "", extractions |-> <<>>, recommended_actions |-> <<>>]

SuppressAction ==
    [action |-> "suppress", title |-> "Ignore low-impact email", notes |-> "No action required.",
     due_date |-> NULL, urgency_window |-> NULL]

priority_map(p) ==
    CASE p = "medium" -> "normal"
      [] p = "med" -> "normal"
      [] p = "low" -> "ignore"
      [] p = "none" -> "ignore"
      [] p = "informational" -> "ignore"
      [] OTHER -> p

domain_map(d) ==
    CASE d = "receivables" -> "payment"
      [] d = "invoice" -> "payment"
      [] d = "billing" -> "payment"
      [] d = "renewals" -> "expiry"
      [] OTHER -> d

intent_map(i) ==
    CASE i = "follow_up" -> "followup_needed"
      [] i = "followup" -> "followup_needed"
      [] i = "pay" -> "payment_commitment"
      [] i = "payment" -> "payment_commitment"
      [] OTHER -> i

\* The suppress action injected for an 'ignore' record with no action.
InjectSuppress(base) ==
    IF base["priority"] = "ignore" /\ Falsy(base["recommended_actions"])
    THEN [base EXCEPT !["recommended_actions"] = <<SuppressAction>>]
    ELSE base

\* A mutant of normalize_output: aliases mapped before lower-casing.
NormalizeMapFirst(out) ==
    LET base == Update(Defaults, out)
        b1 == [base EXCEPT
                 !["priority"] = Or(lower(strip(priority_map(Or(base["priority"], "")))), "normal"),
                 !["domain"] = Or(lower(strip(domain_map(Or(base["domain"], "")))), "other"),
                 !["intent"] = Or(lower(strip(intent_map(Or(base["intent"], "")))), "other")]
    IN  InjectSuppress(b1)

\* A mutant of normalize_output: the suppress action injected before the
\* priority aliases are mapped.
NormalizeInjectFirst(out) ==
    LET base == InjectSuppress(Update(Defaults, out))
    IN  [base EXCEPT
           !["priority"] = Or(priority_map(lower(strip(Or(base["priority"], "")))), "normal"),
           !["domain"] = Or(domain_map(lower(strip(Or(base["domain"], "")))), "other"),
           !["intent"] = Or(intent_map(lower(strip(Or(base["intent"], "")))), "other")]

normalize_output(out) ==
    LET base == Update(Defaults, out)
        b1 == [base EXCEPT
                 !["priority"] = Or(priority_map(lower(strip(Or(base["priority"], "")))), "normal"),
                 !["domain"] = Or(domain_map(lower(strip(Or(base["domain"], "")))), "other"),
                 !["intent"] = Or(intent_map(lower(strip(Or(base["intent"], "")))), "other")]
    IN  InjectSuppress(b1)

\* The keywords a thread's text (bodies and subject, lower-cased) can hold;
\* a text is modelled by the set of keywords that occur in it.
PaymentWords == {"invoice", "remittance", "payment", "paid", "wire", "ach"}
ExpiryWords == {"expires", "expiry", "renewal", "expiring"}
AuditWords == {"soc", "audit", "evidence", "pbc", "controls", "request"}
InfoWords == {"fyi", "newsletter", "promo", "update", "thank you"}

has(text, words) == text \cap words # {}

Extraction(type, summary, confidence) ==
    [type |-> type, summary |-> summary, due_date |-> NULL, amount |-> NULL, currency |-> NULL,
     invoice_id |-> NULL, counterparty |-> NULL, confidence |-> confidence]

Action(kind, title, notes, due_date, urgency_window) ==
    [action |-> kind, title |-> title, notes |-> notes, due_date |-> due_date,
     urgency_window |-> urgency_window]

\* A mutant of simulate_llm: the scalar fields of the first matching family kept.
SimulateFirstWins(text) ==
    LET s0 == [domain |-> "other", intent |-> "other", priority |-> "normal",
               rationale |-> "Simulated triage.", extractions |-> <<>>, actions |-> <<>>]
        s1 == IF has(text, PaymentWords)
              THEN [s0 EXCEPT !.domain = "payment", !.intent = "payment_commitment", !.priority = "high",
                      !.actions = Append(@, Action("create_task", "Payment follow-up / confirm remittance",
                                                   "Check promised payment status.", NULL, "7d")),
                      !.extractions = Append(@, Extraction("payment", "Payment-related conversation detected.", 65))]
              ELSE s0
        s2 == IF has(text, ExpiryWords)
              THEN [s1 EXCEPT !.domain = IF s1.actions = <<>> THEN "expiry" ELSE @,
                      !.intent = IF s1.actions = <<>> THEN "deadline" ELSE @,
                      !.priority = IF s1.actions = <<>> THEN "urgent" ELSE @,
                      !.actions = Append(@, Action("create_task", "Track upcoming expiry / renewal",
                                                   "Confirm expiry date and renewal owner.", NULL, "72h")),
                      !.extractions = Append(@, Extraction("expiry", "Expiry/renewal signal detected.", 65))]
              ELSE s1
        s3 == IF has(text, AuditWords)
              THEN [s2 EXCEPT !.domain = IF s2.actions = <<>> THEN "audit" ELSE @,
                      !.intent = IF s2.actions = <<>> THEN "request" ELSE @,
                      !.priority = IF s2.actions = <<>> THEN "high" ELSE @,
                      !.actions = Append(@, Action("create_task", "Audit request: respond / provide evidence",
                                                   "Identify requested items and due date.", NULL, "7d")),
                      !.extractions = Append(@, Extraction("document_request", "Audit/evidence request detected.", 62))]
              ELSE s2
        s4 == IF s3.actions = <<>> /\ has(text, InfoWords)
              THEN [s3 EXCEPT !.domain = "noise", !.intent = "fyi", !.priority = "ignore",
                      !.actions = Append(@, Action("suppress", "Ignore low-impact email",
                                                   "No action required.", NULL, NULL)),
                      !.rationale = "Simulated: informational/noise."]
              ELSE s3
        s5 == IF s4.actions = <<>>
              THEN [s4 EXCEPT
                      !.actions = Append(@, Action("review_needed", "Review thread",
                                                   "Unclear intent; needs quick scan.", NULL, "7d")),
                      !.rationale = "Simulated: ambiguous thread."]
              ELSE s4
    IN  [domain |-> s5.domain, intent |-> s5.intent, priority |-> s5.priority,
         confidence |-> IF s5.domain # "noise" THEN 62 ELSE 75,
         rationale |-> s5.rationale, extractions |-> s5.extractions,
         recommended_actions |-> s5.actions]

\* A mutant of simulate_llm: the informational test not guarded by `not actions`.
SimulateNoiseUnguarded(text) ==
    LET s0 == [domain |-> "other", intent |-> "other", priority |-> "normal",
               rationale |-> "Simulated triage.", extractions |-> <<>>, actions |-> <<>>]
        s1 == IF has(text, PaymentWords)
              THEN [s0 EXCEPT !.domain = "payment", !.intent = "payment_commitment", !.priority = "high",
                      !.actions = Append(@, Action("create_task", "Payment follow-up / confirm remittance",
                                                   "Check promised payment status.", NULL, "7d")),
                      !.extractions = Append(@, Extraction("payment", "Payment-related conversation detected.", 65))]
              ELSE s0
        s2 == IF has(text, ExpiryWords)
              THEN [s1 EXCEPT !.domain = "expiry", !.intent = "deadline", !.priority = "urgent",
                      !.actions = Append(@, Action("create_task", "Track upcoming expiry / renewal",
                                                   "Confirm expiry date and renewal owner.", NULL, "72h")),
                      !.extractions = Append(@, Extraction("expiry", "Expiry/renewal signal detected.", 65))]
              ELSE s1
        s3 == IF has(text, AuditWords)
              THEN [s2 EXCEPT !.domain = "audit", !.intent = "request", !.priority = "high",
                      !.actions = Append(@, Action("create_task", "Audit request: respond / provide evidence",
                                                   "Identify requested items and due date.", NULL, "7d")),
                      !.extractions = Append(@, Extraction("document_request", "Audit/evidence request detected.", 62))]
              ELSE s2
        s4 == IF has(text, InfoWords)
              THEN [s3 EXCEPT !.domain = "noise", !.intent = "fyi", !.priority = "ignore",
                      !.actions = Append(@, Action("suppress", "Ignore low-impact email",
                                                   "No action required.", NULL, NULL)),
                      !.rationale = "Simulated: informational/noise."]
              ELSE s3
        s5 == IF s4.actions = <<>>
              THEN [s4 EXCEPT
                      !.actions = Append(@, Action("review_needed", "Review thread",
                                                   "Unclear intent; needs quick scan.", NULL, "7d")),
                      !.rationale = "Simulated: ambiguous thread."]
              ELSE s4
    IN  [domain |-> s5.domain, intent |-> s5.intent, priority |-> s5.priority,
         confidence |-> IF s5.domain # "noise" THEN 62 ELSE 75,
         rationale |-> s5.rationale, extractions |-> s5.extractions,
         recommended_actions |-> s5.actions]

simulate_llm(text) ==
    LET s0 == [domain |-> "other", intent |-> "other", priority |-> "normal",
               rationale |-> "Simulated triage.", extractions |-> <<>>, actions |-> <<>>]
        s1 == IF has(text, PaymentWords)
              THEN [s0 EXCEPT !.domain = "payment", !.intent = "payment_commitment", !.priority = "high",
                      !.actions = Append(@, Action("create_task", "Payment follow-up / confirm remittance",
                                                   "Check promised payment status.", NULL, "7d")),
                      !.extractions = Append(@, Extraction("payment", "Payment-related conversation detected.", 65))]
              ELSE s0
        s2 == IF has(text, ExpiryWords)
              THEN [s1 EXCEPT !.domain = "expiry", !.intent = "deadline", !.priority = "urgent",
                      !.actions = Append(@, Action("create_task", "Track upcoming expiry / renewal",
                                                   "Confirm expiry date and renewal owner.", NULL, "72h")),
                      !.extractions = Append(@, Extraction("expiry", "Expiry/renewal signal detected.", 65))]
              ELSE s1
        s3 == IF has(text, AuditWords)
              THEN [s2 EXCEPT !.domain = "audit", !.intent = "request", !.priority = "high",
                      !.actions = Append(@, Action("create_task", "Audit request: respond / provide evidence",
                                                   "Identify requested items and due date.", NULL, "7d")),
                      !.extractions = Append(@, Extraction("document_request", "Audit/evidence request detected.", 62))]
              ELSE s2
        s4 == IF s3.actions = <<>> /\ has(text, InfoWords)
              THEN [s3 EXCEPT !.domain = "noise", !.intent = "fyi", !.priority = "ignore",
                      !.actions = Append(@, Action("suppress", "Ignore low-impact email",
                                                   "No action required.", NULL, NULL)),
                      !.rationale = "Simulated: informational/noise."]
              ELSE s3
        s5 == IF s4.actions = <<>>
              THEN [s4 EXCEPT
                      !.actions = Append(@, Action("review_needed", "Review thread",
                                                   "Unclear intent; needs quick scan.", NULL, "7d")),
                      !.rationale = "Simulated: ambiguous thread."]
              ELSE s4
    IN  [domain |-> s5.domain, intent |-> s5.intent, priority |-> s5.priority,
         confidence |-> IF s5.domain # "noise" THEN 62 ELSE 75,
         rationale |-> s5.rationale, extractions |-> s5.extractions,
         recommended_actions |-> s5.actions]

\* The classification schema (schema.json patched by load_schema_dynamic):
\* all seven keys, domain and priority from their enums, confidence in
\* [0, 1], at least one recommended action, each of a known kind.
TopKeys == {"domain", "intent", "priority", "confidence", "rationale", "extractions", "recommended_actions"}
DomainEnum == {"payment", "expiry", "audit", "followup", "other", "noise"}
PriorityEnum == {"urgent", "high", "normal", "ignore"}
ActionEnum == {"create_task", "send_reminder", "review_needed", "suppress"}

SchemaValid(out) ==
    /\ TopKeys \subseteq DOMAIN out
    /\ out["domain"] \in DomainEnum
    /\ out["priority"] \in PriorityEnum
    /\ out["intent"] # NULL
    /\ out["confidence"] \in 0..100
    /\ out["recommended_actions"] # NullList
    /\ out["recommended_actions"] # <<>>
    /\ \A i \in 1..Len(out["recommended_actions"]) :
          out["recommended_actions"][i].action \in ActionEnum

Returned(out) == [status |-> "ok", out |-> out]
Raised(error) == [status |-> error, out |-> Defaults]

\* triage_thread under LLM_MODE `mode`, for a thread whose text holds the
\* keywords `text`, the completion provider answering `resp`: an HTTP error,
\* or the JSON content of its message.
triage_thread(mode, text, resp) ==
    IF mode = "simulate"
    THEN IF SchemaValid(simulate_llm(text))
         THEN Returned(simulate_llm(text))
         ELSE Raised("ValidationError")
    ELSE IF resp.kind = "http_error"
         THEN Raised("RuntimeError")
         ELSE IF SchemaValid(resp.content)
              THEN Returned(resp.content)
              ELSE Raised("ValidationError")


\* ------------------------------------------------------ follow-up detector
\* The Date values of the messages: the text, the day (relative to day 0 of
\* the clock) datetime.fromisoformat gives it, that day's isoformat, and
\* whether the datetime carries a UTC offset ("utc") or is naive ("none").
DateTable ==
    <<[s |-> "2025-12-12T00:00:00Z", day |-> -20, date |-> "2025-12-12", tz |-> "utc"],
      [s |-> "2025-12-27T00:00:00+00:00", day |-> -5, date |-> "2025-12-27", tz |-> "utc"],
      [s |-> "2025-12-18T00:00:00+00:00", day |-> -14, date |-> "2025-12-18", tz |-> "utc"],
      [s |-> "2025-12-19T00:00:00+00:00", day |-> -13, date |-> "2025-12-19", tz |-> "utc"],
      [s |-> "2025-12-12T00:00:00", day |-> -20, date |-> "2025-12-12", tz |-> "none"],
      [s |-> "2025-12-27T00:00:00", day |-> -5, date |-> "2025-12-27", tz |-> "none"]>>

\* _parse_iso_dt: <<datetime>> for a date that parses, <<>> (None) for an
\* empty or malformed one.
_parse_iso_dt(s) ==
    IF \E i \in 1..Len(DateTable) : DateTable[i].s = s
    THEN LET row == DateTable[CHOOSE i \in 1..Len(DateTable) : DateTable[i].s = s]
         IN  <<[day |-> row.day, tz |-> row.tz]>>
    ELSE <<>>

\* dt.date().isoformat() of a parsed message date.
date_iso(d) == DateTable[CHOOSE i \in 1..Len(DateTable) : DateTable[i].day = d.day].date

\* `my_email in frm`, frm the lower-cased From header.
Contains(frm, needle) ==
    /\ needle = "me@x.com"
    /\ frm \in {"me@x.com", "me <me@x.com>"}

LowerFrom(frm) ==
    CASE frm = "Me <ME@X.COM>" -> "me <me@x.com>"
      [] frm = "Bob <bob@y.com>" -> "bob <bob@y.com>"
      [] OTHER -> frm

\* The sort key of an item: its date, datetime.min in UTC for an unparsed one.
DtMin == -1000000
SortKey(d) == IF d = <<>> THEN DtMin ELSE d[1].day

SortTz(d) == IF d = <<>> THEN "utc" ELSE d[1].tz

\* Ordering a naive datetime against one with an offset raises TypeError:
\* the sort of two or more items raises when their keys are of both kinds.
SortRaises(items) ==
    \E i, j \in 1..Len(items) : SortTz(items[i].d) # SortTz(items[j].d)

\* list.sort(key=...): a stable sort, by insertion.
RECURSIVE InsertSorted(_, _)
InsertSorted(sorted, item) ==
    IF sorted = <<>>
    THEN <<item>>
    ELSE IF SortKey(sorted[Len(sorted)].d) <= SortKey(item.d)
         THEN Append(sorted, item)
         ELSE Append(InsertSorted(SubSeq(sorted, 1, Len(sorted) - 1), item), sorted[Len(sorted)])

RECURSIVE SortItems(_, _)
SortItems(items, n) ==
    IF n = 0 THEN <<>> ELSE InsertSorted(SortItems(items, n - 1), items[n])

\* The scan of waiting_on_reply over the sorted items: the last outbound
\* and the last inbound date, <<>> while there is none.
RECURSIVE ScanItems(_, _, _)
ScanItems(items, email, n) ==
    IF n = 0
    THEN [last_out |-> <<>>, last_in |-> <<>>]
    ELSE LET prev == ScanItems(items, email, n - 1)
             it == items[n]
         IN  IF it.d = <<>>
             THEN prev
             ELSE IF Contains(LowerFrom(it.m.from), email)
                  THEN [prev EXCEPT !.last_out = it.d]
                  ELSE [prev EXCEPT !.last_in = it.d]

WaitingResult(is_stale, last_out) == [is_stale |-> is_stale, last_out |-> last_out, error |-> ""]
WaitingRaised(error) == [is_stale |-> FALSE, last_out |-> <<>>, error |-> error]

\* waiting_on_reply(messages, my_email, stale_days) at day `clock`: the pair
\* it returns, or the exception it raises.  `now` carries a UTC offset, so
\* the age of a naive last outbound date raises TypeError.
waiting_on_reply(messages, email, days, clock) ==
    LET me == strip(lower(Or(email, "")))
        parsed == [i \in 1..Len(messages) |-> [d |-> _parse_iso_dt(messages[i].date), m |-> messages[i]]]
        items == SortItems(parsed, Len(messages))
        scan == ScanItems(items, me, Len(items))
    IN  IF me = ""
        THEN WaitingResult(FALSE, <<>>)
        ELSE IF SortRaises(parsed)
        THEN WaitingRaised("TypeError")
        ELSE IF scan.last_out = <<>>
        THEN WaitingResult(FALSE, <<>>)
        ELSE IF scan.last_in # <<>> /\ scan.last_in[1].day > scan.last_out[1].day
        THEN WaitingResult(FALSE, scan.last_out)
        ELSE IF scan.last_out[1].tz = "none"
        THEN WaitingRaised("TypeError")
        ELSE WaitingResult(clock - scan.last_out[1].day >= days, scan.last_out)

\* ------------------------------------------------------------- the cycle
VARIABLES
    threads,        \* the threads table: a set of rows, one per (provider, thread_id)
    triage_runs,    \* the triage_runs table: rows in id order
    tasks,          \* the tasks table: rows in id order
    now,            \* the clock, in days
    pc,             \* where the process is in cycle(); "idle" when none runs
    visited,        \* the threads the current loop of cycle() has handled
    cur,            \* the thread the triage loop is at
    ev,             \* the last step taken, with its inputs
    triaged,        \* history: the <<thread_id, marker>> pairs record_triage has stored
    fx              \* the pure function last applied, with its argument and result

vars == <<threads, triage_runs, tasks, now, pc, visited, cur, ev, triaged, fx>>

NoCur == [thread_id |-> NULL]

\* The message lists fetch_thread_messages_text returns to the follow-up scan.
Msg(from, date) == [from |-> from, date |-> date]
MsgLists ==
    {<<Msg("Me <ME@X.COM>", "2025-12-12T00:00:00Z")>>,
     <<Msg("Bob <bob@y.com>", "2025-12-27T00:00:00+00:00"), Msg("me@x.com", "2025-12-12T00:00:00Z")>>,
     <<Msg("me@x.com", "Tue, 16 Dec 2025 09:00:00 +0000")>>,
     <<Msg("me@x.com", "2025-12-12T00:00:00")>>}

\* The thread texts the triage loop meets.
CycleTexts == {{"invoice", "paid"}, {"newsletter", "fyi"}}

\* The answers of the completion provider the triage loop meets.
Json(content) == [kind |-> "json", content |-> content]
HttpError == [kind |-> "http_error", content |-> Defaults]
CycleResponses ==
    {HttpError,
     Json([Defaults EXCEPT !.priority = "medium"]),
     Json([domain |-> "noise", intent |-> "fyi", priority |-> "ignore", confidence |-> 40,
           rationale |-> "low", extractions |-> <<>>, recommended_actions |-> <<SuppressAction>>]),
     Json([domain |-> "payment", intent |-> "follow_up", priority |-> "normal", confidence |-> 80,
           rationale |-> "r", extractions |-> <<>>,
           recommended_actions |-> <<Action("create_task", "Payment Follow-Up / Confirm Remittance", "", NULL, NULL),
                                     Action("send_reminder", " payment follow-up / confirm remittance ", "n", "", NULL)>>])}

Modes == {"simulate", "openai_compatible"}

Init ==
    /\ threads = {}
    /\ triage_runs = <<>>
    /\ tasks = <<>>
    /\ now = 0
    /\ pc = "idle"
    /\ visited = {}
    /\ cur = NoCur
    /\ ev = [op |-> "init"]
    /\ triaged = {}
    /\ fx = [fn |-> "none"]

\* main(): a process starts cycle(), FOLLOWUP_ENABLED read from the
\* environment, and fetch_recent_threads lists the threads of its first loop.
StartCycle ==
    /\ pc = "idle"
    /\ \E fup_enabled \in BOOLEAN : pc' = IF fup_enabled THEN "fup" ELSE "loop"
    /\ visited' = {}
    /\ cur' = NoCur
    /\ ev' = [op |-> "fetch"]
    /\ UNCHANGED <<threads, triage_runs, tasks, now, triaged, fx>>

\* UPDATE threads SET digest_bucket=? WHERE provider=? AND thread_id=?
SetBucket(ths, provider, thread_id, bucket) ==
    {IF r.provider = provider /\ r.thread_id = thread_id
     THEN [r EXCEPT !.digest_bucket = bucket]
     ELSE r : r \in ths}

FollowupTitle(subject) == "Follow up: " \o Or(subject, "Email thread")

FollowupNotes(email, last_out) ==
    "Waiting on reply. Last outbound from " \o email \o " was " \o date_iso(last_out[1]) \o "."

\* due_date of a follow-up task: dt.date.today().isoformat()
FollowupDue(clock) == today_iso(clock)

\* One iteration of the follow-up loop of cycle(), for thread tid observed
\* with `subject` and messages `msgs`.
FollowupStep(tid, subject, msgs) ==
    /\ pc = "fup"
    /\ tid \notin visited
    /\ LET w == waiting_on_reply(msgs, my_email, stale_days, now)
           hit == w.is_stale /\ w.last_out # <<>>
       IN  /\ w.error = ""
           /\ threads' = IF hit THEN SetBucket(threads, "gmail", tid, followup_domain) ELSE threads
           /\ tasks' = IF hit
                       THEN create_followup_task(tasks, "gmail", tid, now_iso(now), followup_priority,
                                                 FollowupTitle(subject), FollowupDue(now),
                                                 FollowupNotes(my_email, w.last_out))
                       ELSE tasks
           /\ ev' = [op |-> "followup", thread_id |-> tid, subject |-> subject, stale |-> hit,
                     added |-> Len(tasks') - Len(tasks)]
    /\ visited' = visited \cup {tid}
    /\ UNCHANGED <<triage_runs, now, pc, cur, triaged, fx>>

\* waiting_on_reply raises in the follow-up loop: the exception leaves
\* cycle() and ends the process.
FollowupFail(tid, subject, msgs) ==
    /\ pc = "fup"
    /\ tid \notin visited
    /\ waiting_on_reply(msgs, my_email, stale_days, now).error # ""
    /\ pc' = "idle"
    /\ visited' = {}
    /\ cur' = NoCur
    /\ ev' = [op |-> "crash"]
    /\ UNCHANGED <<threads, triage_runs, tasks, now, triaged, fx>>

\* The follow-up loop ends; fetch_recent_threads lists the threads to triage.
FollowupEnd ==
    /\ pc = "fup"
    /\ pc' = "loop"
    /\ visited' = {}
    /\ ev' = [op |-> "fetch"]
    /\ UNCHANGED <<threads, triage_runs, tasks, now, cur, triaged, fx>>

\* The head of one iteration of the triage loop: the staleness gate, and
\* upsert_thread when the thread passes it.
Observe(tid, subject, hid) ==
    /\ pc = "loop"
    /\ tid \notin visited
    /\ IF Or(hid, "") # "" /\ ~should_analyze_thread(threads, "gmail", tid, hid)
       THEN /\ visited' = visited \cup {tid}
            /\ ev' = [op |-> "skip", thread_id |-> tid, hid |-> hid]
            /\ UNCHANGED <<threads, pc, cur>>
       ELSE /\ threads' = upsert_thread(threads, "gmail", tid, subject, now_iso(now), Or(hid, ""))
            /\ pc' = "triage"
            /\ cur' = [thread_id |-> tid, subject |-> subject, hid |-> hid]
            /\ ev' = [op |-> "upsert_thread", thread_id |-> tid, hid |-> hid]
            /\ UNCHANGED visited
    /\ UNCHANGED <<triage_runs, tasks, now, triaged, fx>>

\* triage_thread, which reads LLM_MODE from the environment at the call,
\* returns and record_triage stores the run; the iteration
\* ends here for an 'ignore' record at or above the confidence threshold.
TriageRecord(mode, text, resp) ==
    /\ pc = "triage"
    /\ Len(triage_runs) < MaxRuns
    /\ LET r == triage_thread(mode, text, resp)
           out == r.out
           skip_tasks == Get(out, "priority", NULL) = "ignore" /\ Get(out, "confidence", 0) >= conf_thr
       IN  /\ r.status = "ok"
           /\ triage_runs' = record_triage_runs(triage_runs, "gmail", cur.thread_id, now_iso(now),
                                                LLM_MODEL, out["confidence"], out)
           /\ threads' = record_triage_threads(threads, "gmail", cur.thread_id, now_iso(now),
                                               Or(cur.hid, ""), out)
           /\ pc' = IF skip_tasks THEN "loop" ELSE "tasks"
           /\ visited' = IF skip_tasks THEN visited \cup {cur.thread_id} ELSE visited
           /\ cur' = IF skip_tasks THEN NoCur
                     ELSE [thread_id |-> cur.thread_id, subject |-> cur.subject, hid |-> cur.hid, out |-> out]
           /\ ev' = [op |-> "record_triage", thread_id |-> cur.thread_id, hid |-> cur.hid, out |-> out,
                     mode |-> mode]
    /\ triaged' = triaged \cup {<<cur.thread_id, Or(cur.hid, "")>>}
    /\ UNCHANGED <<tasks, now, fx>>

\* triage_thread raises (the provider's HTTP error, or the schema
\* validation error): the exception leaves cycle() and ends the process.
TriageFail(mode, text, resp) ==
    /\ pc = "triage"
    /\ LET r == triage_thread(mode, text, resp)
       IN  /\ r.status # "ok"
           /\ ev' = [op |-> "triage_failed", thread_id |-> cur.thread_id, hid |-> cur.hid,
                     error |-> r.status]
    /\ pc' = "idle"
    /\ visited' = {}
    /\ cur' = NoCur
    /\ UNCHANGED <<threads, triage_runs, tasks, now, triaged, fx>>

\* The tail of the iteration: create_tasks_from_actions.
CreateTasks ==
    /\ pc = "tasks"
    /\ tasks' = create_tasks_from_actions(tasks, "gmail", cur.thread_id, now_iso(now), cur.out)
    /\ pc' = "loop"
    /\ visited' = visited \cup {cur.thread_id}
    /\ cur' = NoCur
    /\ ev' = [op |-> "create_tasks", thread_id |-> cur.thread_id, out |-> cur.out,
              added |-> Len(tasks') - Len(tasks)]
    /\ UNCHANGED <<threads, triage_runs, now, triaged, fx>>

\* The triage loop ends: the digest is rendered and sent, cycle() returns.
EndCycle ==
    /\ pc = "loop"
    /\ pc' = "idle"
    /\ visited' = {}
    /\ ev' = [op |-> "digest"]
    /\ UNCHANGED <<threads, triage_runs, tasks, now, cur, triaged, fx>>

\* The process stops inside cycle(): a mail-provider error, or a kill.
Crash ==
    /\ pc \in {"fup", "loop", "triage", "tasks"}
    /\ pc' = "idle"
    /\ visited' = {}
    /\ cur' = NoCur
    /\ ev' = [op |-> "crash"]
    /\ UNCHANGED <<threads, triage_runs, tasks, now, triaged, fx>>

\* main() with --done task_id.
MarkDone(task_id) ==
    /\ pc = "idle"
    /\ tasks' = mark_task_done(tasks, task_id)
    /\ ev' = [op |-> "mark_task_done"]
    /\ UNCHANGED <<threads, triage_runs, now, pc, visited, cur, triaged, fx>>

\* A day passes between two runs of cycle().
Tick ==
    /\ pc = "idle"
    /\ now < MaxNow
    /\ now' = now + 1
    /\ ev' = [op |-> "tick"]
    /\ UNCHANGED <<threads, triage_runs, tasks, pc, visited, cur, triaged, fx>>

Next ==
    \/ StartCycle
    \/ \E tid \in ThreadIds, subject \in Subjects, msgs \in MsgLists : FollowupStep(tid, subject, msgs)
    \/ \E tid \in ThreadIds, subject \in Subjects, msgs \in MsgLists : FollowupFail(tid, subject, msgs)
    \/ FollowupEnd
    \/ \E tid \in ThreadIds, subject \in Subjects, hid \in Markers \cup {NULL} : Observe(tid, subject, hid)
    \/ \E mode \in Modes, text \in CycleTexts, resp \in CycleResponses : TriageRecord(mode, text, resp)
    \/ \E mode \in Modes, text \in CycleTexts, resp \in CycleResponses : TriageFail(mode, text, resp)
    \/ CreateTasks
    \/ EndCycle
    \/ Crash
    \/ \E task_id \in 1..(Len(tasks) + 1) : MarkDone(task_id)
    \/ Tick

Spec == Init /\ [][Next]_vars

\* ------------------------------------------------------------ the claims
\* Helpers of the claims' formulas.
GmailRow(ths, tid) == ThreadRow(ths, "gmail", tid)

RunsOf(runs, tid) == {i \in 1..Len(runs) : runs[i].provider = "gmail" /\ runs[i].thread_id = tid}

LatestRun(runs, tid) == runs[CHOOSE i \in RunsOf(runs, tid) : \A j \in RunsOf(runs, tid) : j <= i]

RowsWithKey(tbl, key) == {i \in 1..Len(tbl) : tbl[i].task_key = key}

TaskActions(out) ==
    {i \in 1..Len(out["recommended_actions"]) : out["recommended_actions"][i].action \in TaskKinds}

\* C1: a call of create_tasks_from_actions leaves the tasks table a fixed
\* point of the same call (same provider, thread and triage output, at any
\* later time), and each task-eligible action of the output has exactly one
\* row under its (normalized title, due_date) key.
C1_ReconcileTwiceIsOnce ==
    ev.op = "create_tasks" =>
        /\ \A clock \in now..MaxNow :
              create_tasks_from_actions(tasks, "gmail", ev.thread_id, now_iso(clock), ev.out) = tasks
        /\ \A i \in TaskActions(ev.out) :
              LET a == ev.out["recommended_actions"][i]
              IN  Cardinality(RowsWithKey(tasks, _task_key("gmail", ev.thread_id, ActionTitle(a), ActionDue(a)))) = 1

\* C1 witness: a second call for the same thread with the output of the
\* first, which added no row.
C1_Witness ==
    /\ ev.op = "create_tasks"
    /\ TaskActions(ev.out) # {}
    /\ ev.added = 0
    /\ Len(triage_runs) = 2
    /\ triage_runs[1].output_json = ev.out
    /\ triage_runs[2].output_json = ev.out
    /\ triage_runs[1].thread_id = ev.thread_id
    /\ triage_runs[2].thread_id = ev.thread_id

\* C2: no two task rows share a task_key, and inserting under the key of
\* any existing row, open or done, leaves the tasks table as it is.
C2_TaskKeyUnique ==
    /\ \A i, j \in 1..Len(tasks) : tasks[i].task_key = tasks[j].task_key => i = j
    /\ \A i \in 1..Len(tasks), pr \in PriorityEnum :
          create_followup_task(tasks, tasks[i].provider, tasks[i].thread_id, now_iso(now), pr,
                               tasks[i].title, tasks[i].due_date, "again") = tasks

\* C2 witness: the follow-up scan found a thread stale whose follow-up task
\* of the day exists and is done; no row was added.
C2_Witness ==
    /\ ev.op = "followup"
    /\ ev.stale
    /\ ev.added = 0
    /\ \E i \in 1..Len(tasks) :
          /\ tasks[i].status = "done"
          /\ tasks[i].task_key = _task_key("gmail", ev.thread_id, FollowupTitle(ev.subject), FollowupDue(now))

\* C3: should_analyze_thread is true for a thread with no row, true for a
\* row whose last_analyzed marker is null, true when the stored marker
\* differs as a string from the observed one, and false when they are equal.
C3_ShouldAnalyze ==
    \A tid \in ThreadIds, m \in Markers \cup {NULL} :
        LET res == should_analyze_thread(threads, "gmail", tid, m)
            stored == GmailRow(threads, tid).last_analyzed_history_id
        IN  /\ ~HasThread(threads, "gmail", tid) => res
            /\ HasThread(threads, "gmail", tid) /\ stored = NULL => res
            /\ HasThread(threads, "gmail", tid) /\ stored # NULL /\ stored # str(m) => res
            /\ HasThread(threads, "gmail", tid) /\ stored # NULL /\ stored = str(m) => ~res

\* C3 witness: the gate met a thread whose stored marker is the observed
\* one and skipped it, while another marker still asks for analysis.
C3_Witness ==
    /\ ev.op = "skip"
    /\ GmailRow(threads, ev.thread_id).last_analyzed_history_id = ev.hid
    /\ \E m \in Markers : should_analyze_thread(threads, "gmail", ev.thread_id, m)

\* The analyzed marker and time of a thread, NULL while it has no row.
Analyzed(ths, tid) ==
    IF HasThread(ths, "gmail", tid)
    THEN <<GmailRow(ths, tid).last_analyzed_history_id, GmailRow(ths, tid).last_analyzed_at>>
    ELSE <<NULL, NULL>>

\* C4: a thread's last_analyzed marker and time change only in a step that
\* records a triage run of that thread; after a triage attempt that raised,
\* should_analyze_thread for the observed marker is still true.
C4_MarkerOnlyAfterTriage ==
    [][/\ \A tid \in ThreadIds :
             Analyzed(threads', tid) # Analyzed(threads, tid)
                => ev'.op = "record_triage" /\ ev'.thread_id = tid
       /\ ev'.op = "triage_failed" /\ pc = "triage"
             => /\ Analyzed(threads', ev'.thread_id) = Analyzed(threads, ev'.thread_id)
                /\ should_analyze_thread(threads', "gmail", ev'.thread_id, ev'.hid)]_vars

\* C4 witness: a thread analyzed under one marker was observed under
\* another, and its triage raised: the analyzed marker is the old one.
C4_Witness ==
    /\ ev.op = "triage_failed"
    /\ ev.hid # NULL
    /\ GmailRow(threads, ev.thread_id).last_seen_history_id = ev.hid
    /\ GmailRow(threads, ev.thread_id).last_analyzed_history_id \in Markers \ {ev.hid}

\* C5 as stated: a thread once triaged under a non-empty marker is skipped
\* by every later iteration that observes that marker.
C5_SkippedOnceTriaged ==
    ev.op = "upsert_thread" /\ ev.hid # NULL => <<ev.thread_id, ev.hid>> \notin triaged

\* C5 amended: record_triage stores the observed marker as the thread's
\* analyzed marker, whatever the classification; and an iteration that
\* observes a non-empty marker equal to the thread's analyzed marker skips
\* the thread, changing no table.
C5_SkippedWhileMarkerIsLast ==
    [][/\ ev'.op = "record_triage" /\ pc = "triage"
             => GmailRow(threads', ev'.thread_id).last_analyzed_history_id = Or(ev'.hid, "")
       /\ pc = "loop" /\ ev'.op \in {"skip", "upsert_thread"} /\ ev'.hid # NULL
             /\ HasThread(threads, "gmail", ev'.thread_id)
             /\ GmailRow(threads, ev'.thread_id).last_analyzed_history_id = ev'.hid
             => /\ ev'.op = "skip"
                /\ pc' = "loop"
                /\ <<threads', triage_runs', tasks'>> = <<threads, triage_runs, tasks>>]_vars

\* C5 witness: a thread classified 'ignore', with no task, was observed
\* again under its marker and skipped.
C5_Witness ==
    /\ ev.op = "skip"
    /\ tasks = <<>>
    /\ Len(triage_runs) = 1
    /\ triage_runs[1].thread_id = ev.thread_id
    /\ triage_runs[1].output_json["priority"] = "ignore"
    /\ <<ev.thread_id, ev.hid>> \in triaged

\* C6 as stated: the digest_bucket of a thread with a triage run is the
\* domain of its latest run.
C6_BucketIsLatestDomain ==
    \A r \in threads :
        RunsOf(triage_runs, r.thread_id) # {}
            => r.digest_bucket = LatestRun(triage_runs, r.thread_id).output_json["domain"]

\* C6 amended: each triage run sets the thread's digest_bucket to its
\* domain; afterwards the bucket changes only when a follow-up scan finds
\* the thread stale, which sets it to the follow-up domain.
C6_BucketIsLatestDomainOrFollowup ==
    [][\A r \in threads' :
          RunsOf(triage_runs', r.thread_id) # {}
             => /\ r.digest_bucket \in {LatestRun(triage_runs', r.thread_id).output_json["domain"], followup_domain}
                /\ r.digest_bucket =
                      IF ev'.op = "record_triage" /\ pc = "triage" /\ ev'.thread_id = r.thread_id
                      THEN LatestRun(triage_runs', r.thread_id).output_json["domain"]
                      ELSE IF ev'.op = "followup" /\ pc = "fup" /\ ev'.thread_id = r.thread_id /\ ev'.stale
                           THEN followup_domain
                           ELSE GmailRow(threads, r.thread_id).digest_bucket]_vars

\* C6 witness: a follow-up scan found a triaged thread stale.
C6_Witness ==
    /\ ev.op = "followup"
    /\ ev.stale
    /\ RunsOf(triage_runs, ev.thread_id) # {}
    /\ GmailRow(threads, ev.thread_id).digest_bucket = followup_domain
    /\ LatestRun(triage_runs, ev.thread_id).output_json["domain"] # followup_domain

\* C7: a thread has at most one follow-up task row per subject.
C7_OneFollowupTask ==
    \A tid \in ThreadIds, subject \in Subjects :
        Cardinality({i \in 1..Len(tasks) :
                        /\ tasks[i].provider = "gmail"
                        /\ tasks[i].thread_id = tid
                        /\ tasks[i].title = FollowupTitle(subject)}) <= 1

\* C8: the rows a call of create_tasks_from_actions adds are rows of
\* actions of kind create_task, send_reminder or review_needed; a call with
\* no such action adds none.
C8_OnlyTaskKindsInsert ==
    ev.op = "create_tasks" =>
        /\ ev.added <= Len(tasks)
        /\ \A i \in (Len(tasks) - ev.added + 1)..Len(tasks) :
              \E k \in TaskActions(ev.out) :
                 /\ tasks[i].title = ActionTitle(ev.out["recommended_actions"][k])
                 /\ tasks[i].due_date = ActionDue(ev.out["recommended_actions"][k])
                 /\ tasks[i].thread_id = ev.thread_id
        /\ TaskActions(ev.out) = {} => ev.added = 0

\* C8 witness: create_tasks_from_actions ran on an output whose only
\* action is suppress.
C8_Witness ==
    /\ ev.op = "create_tasks"
    /\ Len(ev.out["recommended_actions"]) = 1
    /\ ev.out["recommended_actions"][1].action = "suppress"
    /\ ev.added = 0

\* C9: the record triage_thread returns is a fixed point of normalize_output.
C9_TriageOutputNormalized ==
    ev.op = "record_triage" => normalize_output(ev.out) = ev.out

\* ------------------------------------------- normalize_output on its own
\* The records normalize_output is applied to: each of priority, domain,
\* intent and recommended_actions missing, null, aliased or canonical.
Absent == "<absent>"
PriorityInputs == {Absent, NULL, "", " Medium ", "med", "low", "none", "informational", "ignore", "HIGH", "normal"}
DomainInputs == {Absent, NULL, "Invoice", "billing", "renewals", "payment", "noise"}
IntentInputs == {Absent, NULL, "Follow_Up", "followup", "pay", "fyi"}
ActionsInputs ==
    {<<[absent |-> TRUE]>>, NullList, <<>>,
     <<Action("create_task", "Review thread", "", NULL, "7d")>>}

\* The record with the given fields, a field left out when Absent.
Record(priority, domain, intent, actions) ==
    [k \in ({"confidence"}
            \cup (IF priority = Absent THEN {} ELSE {"priority"})
            \cup (IF domain = Absent THEN {} ELSE {"domain"})
            \cup (IF intent = Absent THEN {} ELSE {"intent"})
            \cup (IF actions = <<[absent |-> TRUE]>> THEN {} ELSE {"recommended_actions"})) |->
        CASE k = "confidence" -> 90
          [] k = "priority" -> priority
          [] k = "domain" -> domain
          [] k = "intent" -> intent
          [] k = "recommended_actions" -> actions]

NormalizeInputs ==
    {Record(p, d, i, a) : p \in PriorityInputs, d \in DomainInputs, i \in IntentInputs, a \in ActionsInputs}

InitNormalize ==
    /\ threads = {}
    /\ triage_runs = <<>>
    /\ tasks = <<>>
    /\ now = 0
    /\ pc = "idle"
    /\ visited = {}
    /\ cur = NoCur
    /\ ev = [op |-> "init"]
    /\ triaged = {}
    /\ fx \in {[fn |-> "input", arg |-> x] : x \in NormalizeInputs}

\* normalize_output applied to the input record.
Normalize ==
    /\ fx.fn = "input"
    /\ fx' = [fn |-> "normalize_output", arg |-> fx.arg, res |-> normalize_output(fx.arg)]
    /\ UNCHANGED <<threads, triage_runs, tasks, now, pc, visited, cur, ev, triaged>>

\* normalize_output applied to its own result.
Renormalize ==
    /\ fx.fn = "normalize_output"
    /\ fx' = [fn |-> "renormalize", arg |-> fx.arg, res |-> fx.res, again |-> normalize_output(fx.res)]
    /\ UNCHANGED <<threads, triage_runs, tasks, now, pc, visited, cur, ev, triaged>>

NextNormalize == Normalize \/ Renormalize

SpecNormalize == InitNormalize /\ [][NextNormalize]_vars

\* C10: normalize_output is idempotent: applied to its own result it
\* returns that result.
C10_NormalizeIdempotent ==
    fx.fn = "renormalize" => fx.again = fx.res

\* C10 witness: a record with an aliased priority in mixed case, a missing
\* domain, a null intent and no action list was normalized twice.
C10_Witness ==
    /\ fx.fn = "renormalize"
    /\ fx.arg = Record(" Medium ", Absent, NULL, <<[absent |-> TRUE]>>)
    /\ fx.res["priority"] = "normal"
    /\ fx.res["domain"] = "other"
    /\ fx.res["intent"] = "other"
    /\ fx.arg # fx.res

\* C11: whenever the priority of normalize_output's result is 'ignore',
\* given directly or reached through an alias, the result's
\* recommended_actions is a non-empty list; it is the single suppress action
\* when the input's list was empty, null or missing, and the input's list
\* otherwise.
C11_IgnoreHasAction ==
    fx.fn \in {"normalize_output", "renormalize"} /\ fx.res["priority"] = "ignore" =>
        /\ ~Falsy(fx.res["recommended_actions"])
        /\ Len(fx.res["recommended_actions"]) >= 1
        /\ fx.res["recommended_actions"] =
              IF Falsy(Get(fx.arg, "recommended_actions", <<>>))
              THEN <<SuppressAction>>
              ELSE fx.arg["recommended_actions"]

\* C11 witness: a record whose priority is the alias 'low' and whose action
\* list is missing was normalized to 'ignore' with the suppress action.
C11_Witness ==
    /\ fx.fn = "normalize_output"
    /\ Get(fx.arg, "priority", NULL) = "low"
    /\ "recommended_actions" \notin DOMAIN fx.arg
    /\ fx.res["priority"] = "ignore"
    /\ fx.res["recommended_actions"] = <<SuppressAction>>

\* --------------------------------------------------- simulate_llm on its own
\* The variables of the store and the cycle, which the pure functions leave alone.
storeVars == <<threads, triage_runs, tasks, now, pc, visited, cur, ev, triaged>>

\* No process has run: the store is empty.
NoStore ==
    /\ threads = {}
    /\ triage_runs = <<>>
    /\ tasks = <<>>
    /\ now = 0
    /\ pc = "idle"
    /\ visited = {}
    /\ cur = NoCur
    /\ ev = [op |-> "init"]
    /\ triaged = {}

\* The texts simulate_llm is applied to: every combination of two keywords
\* of each family.
SimWords == {"invoice", "ach", "renewal", "expires", "audit", "request", "newsletter", "fyi"}
SimTexts == SUBSET SimWords

InitSimulate ==
    /\ NoStore
    /\ fx \in {[fn |-> "input", arg |-> text] : text \in SimTexts}

\* simulate_llm applied to the text.
Simulate ==
    /\ fx.fn = "input"
    /\ fx' = [fn |-> "simulate_llm", arg |-> fx.arg, res |-> simulate_llm(fx.arg)]
    /\ UNCHANGED storeVars

\* triage_thread in simulate mode: the simulated record validated.
TriageSimulated ==
    /\ fx.fn = "simulate_llm"
    /\ fx' = [fn |-> "triage_thread", arg |-> fx.arg, res |-> fx.res,
              status |-> triage_thread("simulate", fx.arg, HttpError).status]
    /\ UNCHANGED storeVars

NextSimulate == Simulate \/ TriageSimulated

SpecSimulate == InitSimulate /\ [][NextSimulate]_vars

\* The keyword families in the order they are tested, each with the scalar
\* fields, the action title and the extraction type it brings.
Families ==
    <<[words |-> PaymentWords, domain |-> "payment", intent |-> "payment_commitment", priority |-> "high",
       title |-> "Payment follow-up / confirm remittance", type |-> "payment"],
      [words |-> ExpiryWords, domain |-> "expiry", intent |-> "deadline", priority |-> "urgent",
       title |-> "Track upcoming expiry / renewal", type |-> "expiry"],
      [words |-> AuditWords, domain |-> "audit", intent |-> "request", priority |-> "high",
       title |-> "Audit request: respond / provide evidence", type |-> "document_request"]>>

\* The families a text matches, in family order.
Matching(text) == SelectSeq(Families, LAMBDA f : text \cap f.words # {})

\* C12: with m the families a text matches, in the order payment, expiry,
\* audit, and m not empty, the simulated record has one create_task action
\* and one extraction per family of m, in that order, and the domain, intent
\* and priority of the last family of m; payment with expiry gives expiry and
\* urgent, expiry with audit gives audit and high.
C12_LastFamilyWins ==
    fx.fn = "simulate_llm" /\ Matching(fx.arg) # <<>> =>
        LET m == Matching(fx.arg)
            out == fx.res
        IN  /\ Len(out["recommended_actions"]) = Len(m)
            /\ Len(out["extractions"]) = Len(m)
            /\ \A i \in 1..Len(m) :
                  /\ out["recommended_actions"][i].action = "create_task"
                  /\ out["recommended_actions"][i].title = m[i].title
                  /\ out["extractions"][i].type = m[i].type
            /\ out["domain"] = m[Len(m)].domain
            /\ out["intent"] = m[Len(m)].intent
            /\ out["priority"] = m[Len(m)].priority
            /\ (fx.arg \cap PaymentWords # {} /\ fx.arg \cap ExpiryWords # {} /\ fx.arg \cap AuditWords = {})
                  => out["domain"] = "expiry" /\ out["priority"] = "urgent" /\ Len(out["recommended_actions"]) = 2
            /\ (fx.arg \cap ExpiryWords # {} /\ fx.arg \cap AuditWords # {})
                  => out["domain"] = "audit" /\ out["priority"] = "high" /\ Len(out["recommended_actions"]) \in {2, 3}

\* C12 witness: a text with a payment and an expiry keyword was classified
\* expiry and urgent, with the payment action before the expiry action.
C12_Witness ==
    /\ fx.fn = "simulate_llm"
    /\ fx.arg = {"invoice", "renewal"}
    /\ fx.res["domain"] = "expiry"
    /\ fx.res["priority"] = "urgent"
    /\ Len(fx.res["recommended_actions"]) = 2
    /\ fx.res["recommended_actions"][1].title = "Payment follow-up / confirm remittance"
    /\ fx.res["recommended_actions"][2].title = "Track upcoming expiry / renewal"

\* C13: a text with an informational keyword and no payment, expiry or
\* audit keyword is classified noise and ignore with confidence 0.75 and the
\* suppress action alone; every other text gets confidence 0.62 and a domain
\* other than noise.
C13_NoiseOnlyWhenNothingElse ==
    fx.fn = "simulate_llm" =>
        IF Matching(fx.arg) = <<>> /\ fx.arg \cap InfoWords # {}
        THEN /\ fx.res["domain"] = "noise"
             /\ fx.res["priority"] = "ignore"
             /\ fx.res["confidence"] = 75
             /\ Len(fx.res["recommended_actions"]) = 1
             /\ fx.res["recommended_actions"][1].action = "suppress"
        ELSE /\ fx.res["confidence"] = 62
             /\ fx.res["domain"] # "noise"

\* C13 witness: the text with 'newsletter' and 'fyi' and no other keyword was
\* classified noise.
C13_Witness ==
    /\ fx.fn = "simulate_llm"
    /\ fx.arg = {"newsletter", "fyi"}
    /\ fx.res["domain"] = "noise"
    /\ fx.res["priority"] = "ignore"
    /\ Len(fx.res["recommended_actions"]) = 1
    /\ fx.res["recommended_actions"][1].action = "suppress"

\* ----------------------------------------------- waiting_on_reply on its own
\* Messages of a thread handed to waiting_on_reply.
MaxMsgs == 3

\* The From and Date headers of the messages: mine and someone else's; dates
\* with an offset, without one, in the RFC 2822 form of a mail header, empty.
WaitingFroms == {"Me <ME@X.COM>", "Bob <bob@y.com>"}
WaitingDates ==
    {DateTable[i].s : i \in 1..Len(DateTable)} \cup {"Tue, 16 Dec 2025 09:00:00 +0000", ""}
WaitingMsgs == {Msg(from, date) : from \in WaitingFroms, date \in WaitingDates}
WaitingInputs == UNION {[1..n -> WaitingMsgs] : n \in 0..MaxMsgs}

InitWaiting ==
    /\ NoStore
    /\ fx \in {[fn |-> "input", arg |-> msgs, clock |-> clock] : msgs \in WaitingInputs, clock \in 0..MaxNow}

\* waiting_on_reply applied to the messages on day fx.clock.
WaitingOnReply ==
    /\ fx.fn = "input"
    /\ fx' = [fn |-> "waiting_on_reply", arg |-> fx.arg, clock |-> fx.clock,
              res |-> waiting_on_reply(fx.arg, my_email, stale_days, fx.clock)]
    /\ UNCHANGED storeVars

NextWaiting == WaitingOnReply

SpecWaiting == InitWaiting /\ [][NextWaiting]_vars

\* The messages whose date parses, those of them from my_email and from
\* anyone else, and the latest day of a set of messages.
ParsedMsgs(msgs) == {i \in 1..Len(msgs) : _parse_iso_dt(msgs[i].date) # <<>>}

MsgDay(msgs, i) == _parse_iso_dt(msgs[i].date)[1].day

Outbound(msgs) == {i \in ParsedMsgs(msgs) : Contains(LowerFrom(msgs[i].from), my_email)}

Inbound(msgs) == ParsedMsgs(msgs) \ Outbound(msgs)

LatestDay(msgs, S) == MsgDay(msgs, CHOOSE i \in S : \A j \in S : MsgDay(msgs, j) <= MsgDay(msgs, i))

\* C14: waiting_on_reply returns, and over the messages whose date parses
\* its result is (false, null) when none is outbound, (false, latest
\* outbound) when the latest inbound is strictly newer than the latest
\* outbound, and (age of the latest outbound >= stale_days, latest outbound)
\* otherwise; the messages whose date does not parse change nothing.
C14_WaitingOnReply ==
    fx.fn = "waiting_on_reply" =>
        LET msgs == fx.arg
            outs == Outbound(msgs)
            ins == Inbound(msgs)
            res == fx.res
        IN  /\ res.error = ""
            /\ IF outs = {}
               THEN ~res.is_stale /\ res.last_out = <<>>
               ELSE /\ res.last_out # <<>>
                    /\ res.last_out[1].day = LatestDay(msgs, outs)
                    /\ res.is_stale =
                          IF ins # {} /\ LatestDay(msgs, ins) > LatestDay(msgs, outs)
                          THEN FALSE
                          ELSE fx.clock - LatestDay(msgs, outs) >= stale_days
            /\ res = waiting_on_reply(SelectSeq(msgs, LAMBDA m : _parse_iso_dt(m.date) # <<>>),
                                      my_email, stale_days, fx.clock)

\* ------------------------------------------------------------- the digest
\* date.fromisoformat on the due dates of the vocabulary: the day, relative
\* to day 0 of the clock, of the dates that parse.
DueTable ==
    <<[s |-> "2025-12-31", day |-> -1], [s |-> "2026-01-01", day |-> 0], [s |-> "2026-01-02", day |-> 1],
      [s |-> "2026-01-03", day |-> 2], [s |-> "2026-01-04", day |-> 3], [s |-> "2026-01-05", day |-> 4],
      [s |-> "2026-01-06", day |-> 5]>>

\* _parse_date: <<day>> for a date that parses, <<>> (None) otherwise.
_parse_date(s) ==
    IF \E i \in 1..Len(DueTable) : DueTable[i].s = s
    THEN <<DueTable[CHOOSE i \in 1..Len(DueTable) : DueTable[i].s = s].day>>
    ELSE <<>>

\* (d - date.today()).days on day `clock`.
_days_until(d, clock) == d - clock

\* `needle in s` for the two needles of _compute_bucket, over the
\* lower-cased titles and notes of the vocabulary.
InStr(needle, s) ==
    CASE needle = "review" -> s \in {"review thread"}
      [] needle = "unclear" -> s \in {"unclear intent; needs quick scan."}
      [] OTHER -> FALSE

AllowedBuckets == {"expiry", "audit", "followup", "payment", "other", "noise"}

\* A mutant of _compute_bucket: the review test made before the due-date test.
ComputeBucketReviewFirst(t, clock) ==
    LET due == _parse_date(Or(t.due_date, ""))
        title == lower(Or(t.title, ""))
        b == lower(Or(t.bucket, "other"))
    IN  IF t.priority = "urgent"
        THEN "urgent"
        ELSE IF InStr("review", title) \/ InStr("unclear", lower(Or(t.notes, "")))
        THEN "review"
        ELSE IF due # <<>> /\ _days_until(due[1], clock) <= 3
        THEN "urgent"
        ELSE IF b \in AllowedBuckets THEN b ELSE "other"

\* _compute_bucket(t) on day `clock`, t a row of fetch_open_tasks.
_compute_bucket(t, clock) ==
    LET due == _parse_date(Or(t.due_date, ""))
        title == lower(Or(t.title, ""))
        b == lower(Or(t.bucket, "other"))
    IN  IF t.priority = "urgent"
        THEN "urgent"
        ELSE IF due # <<>> /\ _days_until(due[1], clock) <= 3
        THEN "urgent"
        ELSE IF InStr("review", title) \/ InStr("unclear", lower(Or(t.notes, "")))
        THEN "review"
        ELSE IF b \in AllowedBuckets THEN b ELSE "other"

\* The rank of the ORDER BY of fetch_open_tasks:
\* CASE priority WHEN 'urgent' THEN 0 WHEN 'high' THEN 1 WHEN 'normal' THEN 2 ELSE 3 END
priority_rank(p) ==
    CASE p = "urgent" -> 0
      [] p = "high" -> 1
      [] p = "normal" -> 2
      [] OTHER -> 3

\* The due dates of the vocabulary in the ascending order of SQLite's text
\* comparison, '9999-12-31' standing for NULL.
DueSortOrder ==
    <<"", " 2026-01-02 ", "2025-12-31", "2026-01-01", "2026-01-02", "2026-01-03", "2026-01-04",
      "2026-01-05", "2026-01-06", "9999-12-31">>

\* The place of COALESCE(due_date, '9999-12-31') in that order.
due_rank(due_date) ==
    LET d == IF due_date = NULL THEN "9999-12-31" ELSE due_date
    IN  CHOOSE i \in 1..Len(DueSortOrder) : DueSortOrder[i] = d

\* Row a comes no later than row b under the ORDER BY.
OrderedBefore(a, b) ==
    \/ priority_rank(a.priority) < priority_rank(b.priority)
    \/ /\ priority_rank(a.priority) = priority_rank(b.priority)
       /\ due_rank(a.due_date) <= due_rank(b.due_date)

\* tasks LEFT JOIN threads WHERE status = 'open': the selected columns.
OpenJoined(tbl, ths) ==
    {[id |-> tbl[i].id, provider |-> tbl[i].provider, thread_id |-> tbl[i].thread_id,
      created_at |-> tbl[i].created_at, priority |-> tbl[i].priority, title |-> tbl[i].title,
      due_date |-> tbl[i].due_date, notes |-> tbl[i].notes,
      thread_subject |-> IF HasThread(ths, tbl[i].provider, tbl[i].thread_id)
                         THEN ThreadRow(ths, tbl[i].provider, tbl[i].thread_id).subject ELSE NULL,
      bucket |-> IF HasThread(ths, tbl[i].provider, tbl[i].thread_id)
                 THEN ThreadRow(ths, tbl[i].provider, tbl[i].thread_id).digest_bucket ELSE NULL] :
        i \in {k \in 1..Len(tbl) : tbl[k].status = "open"}}

\* fetch_open_tasks: the lists the query can return, the open rows in an
\* order the ORDER BY allows (rows with equal keys come in any order).
fetch_open_tasks(tbl, ths) ==
    LET rows == OpenJoined(tbl, ths)
        n == Cardinality(rows)
    IN  {seq \in [1..n -> rows] :
            /\ \A i, j \in 1..n : seq[i] = seq[j] => i = j
            /\ \A i, j \in 1..n : i < j => OrderedBefore(seq[i], seq[j])}

buckets_order == <<"urgent", "expiry", "audit", "followup", "payment", "review", "other">>

\* rows_for renders the first 80 rows of a group.
RowLimit == 80

FirstRows(items, n) == SubSeq(items, 1, IF Len(items) < n THEN Len(items) ELSE n)

\* render_digest(tasks) on day `clock`: the count chips and the sections of
\* the document, in the order they are written, and the groups behind them.
\* A row whose bucket is no key of `groups` goes to `extras`, which no part
\* of the document shows.
render_digest(rows, clock) ==
    LET group(k) == SelectSeq(rows, LAMBDA t : _compute_bucket(t, clock) = k)
        keys == {buckets_order[i] : i \in 1..Len(buckets_order)}
    IN  [counts |-> [i \in 1..Len(buckets_order) |->
                        [bucket |-> buckets_order[i], n |-> Len(group(buckets_order[i]))]],
         sections |-> [i \in 1..Len(buckets_order) |->
                        [bucket |-> buckets_order[i], n |-> Len(group(buckets_order[i])),
                         rows |-> FirstRows(group(buckets_order[i]), RowLimit)]],
         extras |-> SelectSeq(rows, LAMBDA t : _compute_bucket(t, clock) \notin keys)]

\* ---------------------------------------------- _compute_bucket on its own
\* The rows _compute_bucket is applied to.
BucketPriorities == {"urgent", "high", "normal"}
BucketDues ==
    {NULL, "", " 2026-01-02 ", "2025-12-31", "2026-01-03", "2026-01-04", "2026-01-05", "2026-01-06"}
BucketTitles == {"Review thread", "Payment follow-up / confirm remittance", "Follow up: Invoice 1023"}
BucketNotes == {NULL, "Unclear intent; needs quick scan.", "Check promised payment status."}
ThreadBuckets == {NULL, "payment", "expiry", "audit", "followup", "followups", "other", "noise"}

JoinedRow(id, priority, title, due_date, notes, bucket) ==
    [id |-> id, provider |-> "gmail", thread_id |-> "t1", created_at |-> now_iso(0),
     priority |-> priority, title |-> title, due_date |-> due_date, notes |-> notes,
     thread_subject |-> "Invoice 1023", bucket |-> bucket]

BucketInputs ==
    {JoinedRow(1, pr, title, due, notes, b) :
        pr \in BucketPriorities, title \in BucketTitles, due \in BucketDues,
        notes \in BucketNotes, b \in ThreadBuckets}

InitBucket ==
    /\ NoStore
    /\ fx \in {[fn |-> "input", arg |-> t, clock |-> clock] : t \in BucketInputs, clock \in 0..MaxNow}

\* _compute_bucket applied to the row on day fx.clock.
ComputeBucket ==
    /\ fx.fn = "input"
    /\ fx' = [fn |-> "_compute_bucket", arg |-> fx.arg, clock |-> fx.clock,
              res |-> _compute_bucket(fx.arg, fx.clock)]
    /\ UNCHANGED storeVars

NextBucket == ComputeBucket

SpecBucket == InitBucket /\ [][NextBucket]_vars

\* The due date of a row parses and is at most 3 days after day `clock`.
DueSoon(t, clock) ==
    \E i \in 1..Len(DueTable) : DueTable[i].s = t.due_date /\ DueTable[i].day - clock <= 3

\* The title of a row holds 'review', or its notes hold 'unclear', in any case.
ReviewLike(t) ==
    \/ t.title \in {"Review thread"}
    \/ t.notes \in {"Unclear intent; needs quick scan."}

\* C15: the bucket of a row is 'urgent' for priority 'urgent'; else 'urgent'
\* for a due date that parses and is at most 3 days after today; else
\* 'review' for a title holding 'review' or notes holding 'unclear'; else the
\* thread's digest_bucket when it is an allowed domain, and 'other' when it
\* is not.  A 'normal' row due 2 days from today is in 'urgent' whatever its
\* title, notes and thread bucket.
C15_BucketPrecedence ==
    fx.fn = "_compute_bucket" =>
        LET t == fx.arg
        IN  /\ t.priority = "urgent" => fx.res = "urgent"
            /\ t.priority # "urgent" /\ DueSoon(t, fx.clock) => fx.res = "urgent"
            /\ t.priority # "urgent" /\ ~DueSoon(t, fx.clock) /\ ReviewLike(t) => fx.res = "review"
            /\ t.priority # "urgent" /\ ~DueSoon(t, fx.clock) /\ ~ReviewLike(t) =>
                  fx.res = IF t.bucket \in AllowedBuckets THEN t.bucket ELSE "other"
            /\ t.priority = "normal" /\ t.due_date = today_iso(fx.clock + 2) => fx.res = "urgent"

\* C15 witness: a 'normal' row titled 'Review thread', with notes holding
\* 'unclear', of a thread in bucket 'payment' and due 2 days from today, was
\* put in 'urgent'.
C15_Witness ==
    /\ fx.fn = "_compute_bucket"
    /\ fx.arg.priority = "normal"
    /\ fx.arg.due_date = today_iso(fx.clock + 2)
    /\ fx.arg.title = "Review thread"
    /\ fx.arg.notes = "Unclear intent; needs quick scan."
    /\ fx.arg.bucket = "payment"
    /\ fx.res = "urgent"

\* ------------------------------------------------- the digest on its own
\* Rows of the tasks table of the store the digest is made from.
MaxRows == 2

\* The rows a store holds: rows of triage actions, follow-up rows (due on
\* the day they were made, their priority FOLLOWUP_PRIORITY), a review row
\* and a done row.
StoredRow(priority, title, due_date, notes, status) ==
    [priority |-> priority, title |-> title, due_date |-> due_date, notes |-> notes, status |-> status]

DigestRows ==
    {StoredRow(pr, "Payment follow-up / confirm remittance", due, "Check promised payment status.", "open") :
        pr \in PriorityEnum, due \in {NULL, "2026-01-03", "2026-01-06"}}
    \cup {StoredRow(pr, "Follow up: Invoice 1023", due, "Waiting on reply.", "open") :
        pr \in {"normal", "low"}, due \in {"2025-12-31", "2026-01-01"}}
    \cup {StoredRow("normal", "Review thread", NULL, "Unclear intent; needs quick scan.", "open"),
          StoredRow("high", "Track upcoming expiry / renewal", NULL, "Confirm expiry date and renewal owner.", "done")}

\* The tasks table with the given rows, in id order.
TasksTable(rows) ==
    [i \in 1..Len(rows) |->
        [id |-> i, provider |-> "gmail", thread_id |-> "t1", created_at |-> now_iso(0),
         status |-> rows[i].status, priority |-> rows[i].priority, title |-> rows[i].title,
         due_date |-> rows[i].due_date, notes |-> rows[i].notes,
         task_key |-> _task_key("gmail", "t1", rows[i].title, rows[i].due_date)]]

\* The tables of up to MaxRows rows; the unique index allows no two rows
\* with one task_key.
DigestTables ==
    {TasksTable(rows) : rows \in
        {r \in UNION {[1..n -> DigestRows] : n \in 0..MaxRows} :
            \A i, j \in 1..Len(r) :
                _task_key("gmail", "t1", r[i].title, r[i].due_date)
                    = _task_key("gmail", "t1", r[j].title, r[j].due_date) => i = j}}

\* The threads table: no row for the thread, or its row under a bucket.
DigestThreads ==
    {{}} \cup
    {{[provider |-> "gmail", thread_id |-> "t1", subject |-> "Invoice 1023",
       last_seen_at |-> now_iso(0), last_analyzed_at |-> NULL, digest_bucket |-> b,
       last_seen_history_id |-> "h1", last_analyzed_history_id |-> NULL]} :
        b \in {NULL, "payment", "noise", "followups", "other"}}

InitDigest ==
    /\ threads \in DigestThreads
    /\ triage_runs = <<>>
    /\ tasks \in DigestTables
    /\ now \in 0..MaxNow
    /\ pc = "idle"
    /\ visited = {}
    /\ cur = NoCur
    /\ ev = [op |-> "init"]
    /\ triaged = {}
    /\ fx = [fn |-> "none"]

\* cycle(), line 254: store.fetch_open_tasks(conn).
FetchOpenTasks ==
    /\ fx.fn = "none"
    /\ \E rows \in fetch_open_tasks(tasks, threads) : fx' = [fn |-> "fetch_open_tasks", rows |-> rows]
    /\ UNCHANGED storeVars

\* cycle(), line 257: render_digest(tasks).
RenderDigest ==
    /\ fx.fn = "fetch_open_tasks"
    /\ fx' = [fn |-> "render_digest", rows |-> fx.rows, res |-> render_digest(fx.rows, now)]
    /\ UNCHANGED storeVars

NextDigest == FetchOpenTasks \/ RenderDigest

SpecDigest == InitDigest /\ [][NextDigest]_vars

\* The priority rank of the ordering as specified: an unknown value ranks 9.
SpecRank(p) ==
    CASE p = "urgent" -> 0
      [] p = "high" -> 1
      [] p = "normal" -> 2
      [] p = "ignore" -> 3
      [] OTHER -> 9

\* C16: in each section of the digest the rows come by priority rank
\* ascending (urgent 0, high 1, normal 2, ignore 3, any other value 9), then
\* by due_date ascending, a missing due_date last; an 'ignore' row precedes
\* a row of the section whose priority is an unknown value.
C16_SectionOrder ==
    fx.fn = "render_digest" =>
        \A k \in 1..Len(fx.res.sections) :
            LET rows == fx.res.sections[k].rows
            IN  \A i, j \in 1..Len(rows) :
                    i < j =>
                        \/ SpecRank(rows[i].priority) < SpecRank(rows[j].priority)
                        \/ /\ SpecRank(rows[i].priority) = SpecRank(rows[j].priority)
                           /\ due_rank(rows[i].due_date) <= due_rank(rows[j].due_date)

\* C17: the sections of the digest begin with 'urgent' and end with
\* 'review', the domain buckets in between: none comes after 'review'.
C17_ReviewLast ==
    fx.fn = "render_digest" =>
        LET sections == fx.res.sections
        IN  /\ sections[1].bucket = "urgent"
            /\ sections[Len(sections)].bucket = "review"
            /\ \A i \in 1..Len(sections) :
                  sections[i].bucket \in DomainEnum => \A j \in 1..i : sections[j].bucket # "review"

\* ------------------------------------------------- the writes of a cycle
\* The write the last step made, applied once more with the same arguments.
UpsertAgain ==
    upsert_thread(threads, "gmail", ev.thread_id, cur.subject, now_iso(now), Or(ev.hid, ""))

RecordThreadsAgain ==
    record_triage_threads(threads, "gmail", ev.thread_id, now_iso(now), Or(ev.hid, ""), ev.out)

RecordRunsAgain ==
    record_triage_runs(triage_runs, "gmail", ev.thread_id, now_iso(now), LLM_MODEL,
                       ev.out["confidence"], ev.out)

CreateTasksAgain ==
    create_tasks_from_actions(tasks, "gmail", ev.thread_id, now_iso(now), ev.out)

FollowupTaskAgain ==
    create_followup_task(tasks, "gmail", ev.thread_id, now_iso(now), followup_priority,
                         FollowupTitle(ev.subject), FollowupDue(now), "Waiting on reply.")

\* C18 as stated: each write of a cycle, applied a second time with the
\* same arguments, leaves the three tables as the first application left
\* them.
C18_WritesIdempotent ==
    /\ ev.op = "upsert_thread" => UpsertAgain = threads
    /\ ev.op = "record_triage" => RecordThreadsAgain = threads /\ RecordRunsAgain = triage_runs
    /\ ev.op = "create_tasks" => CreateTasksAgain = tasks
    /\ ev.op = "followup" /\ ev.stale => FollowupTaskAgain = tasks

\* C18 amended: the thread upsert and the task insert-or-ignore, applied a
\* second time with the same arguments, leave the store as it is; so does
\* the thread update of record_triage, while its insert into the run log
\* adds one more row each time, equal to the last but for its id.
C18_WritesIdempotentButRunLog ==
    /\ ev.op = "upsert_thread" => UpsertAgain = threads
    /\ ev.op = "create_tasks" => CreateTasksAgain = tasks
    /\ ev.op = "followup" /\ ev.stale => FollowupTaskAgain = tasks
    /\ ev.op = "record_triage" =>
          /\ RecordThreadsAgain = threads
          /\ Len(RecordRunsAgain) = Len(triage_runs) + 1
          /\ SubSeq(RecordRunsAgain, 1, Len(triage_runs)) = triage_runs
          /\ RecordRunsAgain[Len(triage_runs) + 1] =
                [triage_runs[Len(triage_runs)] EXCEPT !.id = Len(triage_runs) + 1]

\* C18 witness: record_triage ran twice for a thread with the same marker,
\* time and output: the thread row is as after the first run, the run log
\* holds two rows that differ in their id only.
C18_Witness ==
    /\ ev.op = "record_triage"
    /\ Len(triage_runs) = 2
    /\ triage_runs[2] = [triage_runs[1] EXCEPT !.id = 2]
    /\ RecordThreadsAgain = threads

\* ------------------------------------------------------------ poll mode
\* main() with --poll: `while True: cycle(); time.sleep(...)`.  StartCycle
\* is the operator starting the process; an exception raised in cycle() is
\* caught nowhere, leaves the loop and main(), and ends the process
\* (TriageFail, FollowupFail and Crash leave pc = "idle", where no process
\* runs).

\* cycle() returns to the loop, which goes to sleep.
PollSleep ==
    /\ pc = "loop"
    /\ pc' = "sleep"
    /\ visited' = {}
    /\ ev' = [op |-> "digest"]
    /\ UNCHANGED <<threads, triage_runs, tasks, now, cur, triaged, fx>>

\* time.sleep returns and the loop calls cycle() again.
PollWake ==
    /\ pc = "sleep"
    /\ \E fup_enabled \in BOOLEAN : pc' = IF fup_enabled THEN "fup" ELSE "loop"
    /\ visited' = {}
    /\ cur' = NoCur
    /\ ev' = [op |-> "poll"]
    /\ UNCHANGED <<threads, triage_runs, tasks, now, triaged, fx>>

\* The steps of a running process.
PollStep ==
    \/ \E tid \in ThreadIds, subject \in Subjects, msgs \in MsgLists : FollowupStep(tid, subject, msgs)
    \/ \E tid \in ThreadIds, subject \in Subjects, msgs \in MsgLists : FollowupFail(tid, subject, msgs)
    \/ FollowupEnd
    \/ \E tid \in ThreadIds, subject \in Subjects, hid \in Markers \cup {NULL} : Observe(tid, subject, hid)
    \/ \E mode \in Modes, text \in CycleTexts, resp \in CycleResponses : TriageRecord(mode, text, resp)
    \/ \E mode \in Modes, text \in CycleTexts, resp \in CycleResponses : TriageFail(mode, text, resp)
    \/ CreateTasks
    \/ PollSleep
    \/ PollWake

NextPoll ==
    \/ StartCycle
    \/ PollStep

\* A running process keeps taking steps and is not killed from outside;
\* nothing makes the operator start a process again.
SpecPoll == Init /\ [][NextPoll]_vars /\ WF_vars(PollStep)

\* C19: in poll mode, after the model provider's call failed in a cycle, a
\* next iteration of the polling loop runs.
C19_NextIterationAfterFailure ==
    (ev.op = "triage_failed" /\ ev.error = "RuntimeError") ~> (ev.op = "poll")

\* ------------------------------------------------- the frame of task rows
\* C20: no step deletes a task row; a step changes an existing row only
\* when it is mark_task_done, and then only the row's status, to 'done';
\* create_tasks_from_actions and create_followup_task leave every existing
\* row as it is, and a 'done' row stays 'done'.
C20_TaskRowsFrame ==
    [][/\ Len(tasks') >= Len(tasks)
       /\ \A i \in 1..Len(tasks) :
             /\ \/ tasks'[i] = tasks[i]
                \/ /\ ev'.op = "mark_task_done"
                   /\ tasks'[i] = [tasks[i] EXCEPT !.status = "done"]
             /\ tasks[i].status = "done" => tasks'[i].status = "done"
       /\ ev'.op \in {"create_tasks", "followup"} => SubSeq(tasks', 1, Len(tasks)) = tasks]_vars

\* C20 witness: a re-triage gave another priority and other notes for an
\* action whose task_key a row already had; the row kept its priority and
\* notes and no row was added.
C20_Witness ==
    /\ ev.op = "create_tasks"
    /\ ev.added = 0
    /\ \E k \in TaskActions(ev.out), i \in 1..Len(tasks) :
          LET a == ev.out["recommended_actions"][k]
          IN  /\ tasks[i].task_key = _task_key("gmail", ev.thread_id, ActionTitle(a), ActionDue(a))
              /\ tasks[i].priority # ev.out["priority"]
              /\ tasks[i].notes # ActionNotes(a, ev.out)

\* --------------------------------------------- the buckets of the digest
\* The sum of the counts the digest shows.
RECURSIVE CountsTotal(_)
CountsTotal(counts) ==
    IF counts = <<>> THEN 0 ELSE Head(counts).n + CountsTotal(Tail(counts))

\* The sections of the digest that list row t.
SectionsOf(res, t) ==
    {k \in 1..Len(res.sections) :
        \E i \in 1..Len(res.sections[k].rows) : res.sections[k].rows[i] = t}

\* C21: every open task fetch_open_tasks returns is listed by render_digest
\* in exactly one section, whatever the digest_bucket of its thread
\* ('noise' included), and the counts of the digest sum to the number of
\* open tasks.
C21_EveryOpenTaskRendered ==
    fx.fn = "render_digest" =>
        /\ \A i \in 1..Len(fx.rows) : Cardinality(SectionsOf(fx.res, fx.rows[i])) = 1
        /\ CountsTotal(fx.res.counts) = Len(fx.rows)
        /\ Len(fx.rows) = Cardinality({i \in 1..Len(tasks) : tasks[i].status = "open"})

\* ------------------------------------------------ a stop inside a cycle
\* The output of the latest triage run stored for thread tid.
LastRunOutput(tid) ==
    LET ids == {i \in 1..Len(triage_runs) : triage_runs[i].thread_id = tid}
        last == CHOOSE i \in ids : \A j \in ids : j <= i
    IN  triage_runs[last].output_json

\* The tasks table has the row of every task-eligible action of `out` for
\* thread tid, unless `out` is an 'ignore' record at or above the threshold.
TasksCreatedFor(tid, out) ==
    \/ Get(out, "priority", NULL) = "ignore" /\ Get(out, "confidence", 0) >= conf_thr
    \/ \A k \in TaskActions(out) :
          LET a == out["recommended_actions"][k]
          IN  \E i \in 1..Len(tasks) :
                 tasks[i].task_key = _task_key("gmail", tid, ActionTitle(a), ActionDue(a))

\* C22: when a cycle observes a thread with the change marker of its last
\* recorded triage and skips it, the task rows of the task-eligible actions
\* of that triage exist: a stop between record_triage and
\* create_tasks_from_actions leaves no thread skipped with its tasks missing.
C22_NoTasksMissingAfterStop ==
    (ev.op = "skip" /\ \E i \in 1..Len(triage_runs) : triage_runs[i].thread_id = ev.thread_id)
        => TasksCreatedFor(ev.thread_id, LastRunOutput(ev.thread_id))

====
